---- MODULE Spec2Model ----
(***************************************************************************)
(* MySQLDatabase (src/lib/mysql_module.py): a data-access layer that runs  *)
(* read queries and write commands on a MySQL connection opened per call,  *)
(* caches read results in Redis under a digest of (query, params), and     *)
(* registers each cache key in a per-table Redis set so that writes can    *)
(* invalidate it.                                                          *)
(*                                                                         *)
(* The model follows one call at a time through its interactions with      *)
(* the two servers (connect, execute, commit, rollback, close; GET, SETEX, *)
(* SADD, SMEMBERS, DEL).  Values are tagged records [k |-> kind, v |-> x]. *)
(***************************************************************************)
EXTENDS Integers, Sequences, FiniteSets, TLC

(***************************************************************************)
(* Bounds of the model.                                                    *)
(***************************************************************************)
MaxData == 5        \* longest parameter list given to execute_many_commit
MaxBatch == 3       \* largest batch_size given to execute_many_commit
MaxCalls == 3       \* calls issued in one run of Spec
MaxCallsShort == 2  \* calls issued in one run of SpecShort
MaxCallsPure == 2   \* calls issued in one run of SpecPure
MaxCallsRace == 3   \* calls issued in one run of SpecRace
MaxCallsReadWrite == 2  \* calls issued in one run of SpecReadWrite

(***************************************************************************)
(* Python values.                                                          *)
(***************************************************************************)
PyNone == [k |-> "none"]
PyStr(s) == [k |-> "str", v |-> s]
PyBool(b) == [k |-> "bool", v |-> b]
PyInt(n) == [k |-> "int", v |-> n]
PyFloat(n) == [k |-> "float", v |-> n]
\* decimal.Decimal, datetime.datetime, datetime.date and
\* datetime.timedelta (what a TIME column or TIMEDIFF comes back as)
PyDecimal(n) == [k |-> "decimal", v |-> n]
PyDateTime(n) == [k |-> "datetime", v |-> n]
PyDate(n) == [k |-> "date", v |-> n]
PyTimeDelta(n) == [k |-> "timedelta", v |-> n]
PyList(s) == [k |-> "list", v |-> s]
PyTuple(s) == [k |-> "tuple", v |-> s]
\* a dict: its <<key, value>> items in insertion order
PyDict(items) == [k |-> "dict", v |-> items]
\* a row of a dictionary cursor with its single column
Row(x) == PyDict(<<<<"v", x>>>>)

\* exceptions, as values
TypeError == [k |-> "TypeError"]
ValueError == [k |-> "ValueError"]
MySQLError == [k |-> "mysql.connector.Error"]

IsError(x) == x.k \in {"TypeError", "ValueError"}

(***************************************************************************)
(* JSON documents (what json.dumps writes and json.loads reads).           *)
(***************************************************************************)
JNull == [k |-> "jnull"]
JStr(s) == [k |-> "jstr", v |-> s]
JBool(b) == [k |-> "jbool", v |-> b]
JInt(n) == [k |-> "jint", v |-> n]
JFloat(n) == [k |-> "jfloat", v |-> n]
JArr(s) == [k |-> "jarr", v |-> s]
\* an object: its <<key, document>> members in the order they are written
JObj(items) == [k |-> "jobj", v |-> items]

\* date.isoformat() of the n-th day
IsoFormat(n) == <<"1970-01-01", "1970-01-02", "1970-01-03">>[n]

\* _convert_value: None and str, bool, int, float unchanged; a decimal
\* becomes a float, a date-time its epoch-seconds float, a date its ISO
\* string; a list or tuple becomes the list of its converted elements, a
\* dict the dict of its converted values; an object of any other class
\* falls through json.loads and fromisoformat (both refuse it) and comes
\* back unchanged.
RECURSIVE ConvertValue(_)
ConvertValue(val) ==
    CASE val.k = "none" -> PyNone
      [] val.k \in {"str", "bool", "int", "float"} -> val
      [] val.k = "decimal" -> PyFloat(val.v)
      [] val.k = "datetime" -> PyFloat(val.v)
      [] val.k = "date" -> PyStr(IsoFormat(val.v))
      [] val.k \in {"list", "tuple"} ->
            PyList([i \in 1..Len(val.v) |-> ConvertValue(val.v[i])])
      [] val.k = "dict" ->
            PyDict([i \in 1..Len(val.v) |->
                      <<val.v[i][1], ConvertValue(val.v[i][2])>>])
      [] OTHER -> val

\* the order of the keys that sort_keys=True sorts by
KeyRank(key) == CHOOSE i \in 1..4 : <<"a", "b", "c", "v">>[i] = key

\* sorted(items) by key
RECURSIVE SortItems(_)
SortItems(items) ==
    IF items = <<>> THEN <<>>
    ELSE LET least == CHOOSE i \in 1..Len(items) :
                         \A j \in 1..Len(items) :
                            KeyRank(items[i][1]) <= KeyRank(items[j][1])
         IN  <<items[least]>> \o
             SortItems([j \in 1..(Len(items) - 1) |->
                          IF j < least THEN items[j] ELSE items[j + 1]])

\* the first error among the documents of a container, or Nothing
FirstError(docs) ==
    IF \E i \in 1..Len(docs) : IsError(docs[i])
    THEN docs[CHOOSE i \in 1..Len(docs) :
                 /\ IsError(docs[i])
                 /\ \A j \in 1..(i - 1) : ~IsError(docs[j])]
    ELSE [k |-> "nothing"]

\* json.dumps(obj, default=hook, sort_keys=sort_keys): natively
\* serialisable kinds are written as they are, containers element-wise;
\* any other object goes through the hook when there is one and raises
\* TypeError when there is none.  A hook that hands the object back
\* unchanged makes the encoder meet the same object again: ValueError
\* ("Circular reference detected").
RECURSIVE JsonDumps(_, _, _)
JsonDumps(obj, hook, sort_keys) ==
    CASE obj.k = "none" -> JNull
      [] obj.k = "str" -> JStr(obj.v)
      [] obj.k = "bool" -> JBool(obj.v)
      [] obj.k = "int" -> JInt(obj.v)
      [] obj.k = "float" -> JFloat(obj.v)
      [] obj.k \in {"list", "tuple"} ->
            LET docs == [i \in 1..Len(obj.v) |->
                           JsonDumps(obj.v[i], hook, sort_keys)]
            IN  IF FirstError(docs).k # "nothing" THEN FirstError(docs)
                ELSE JArr(docs)
      [] obj.k = "dict" ->
            LET items == IF sort_keys THEN SortItems(obj.v) ELSE obj.v
                docs == [i \in 1..Len(items) |->
                           JsonDumps(items[i][2], hook, sort_keys)]
            IN  IF FirstError(docs).k # "nothing" THEN FirstError(docs)
                ELSE JObj([i \in 1..Len(items) |-> <<items[i][1], docs[i]>>])
      [] OTHER -> IF ~hook THEN TypeError
                  ELSE IF ConvertValue(obj) = obj THEN ValueError
                  ELSE JsonDumps(ConvertValue(obj), hook, sort_keys)

\* json.loads: every array comes back as a list, every object as a dict
\* with its members in their order, every scalar as the str, bool, int or
\* float it spells, null as None.
RECURSIVE JsonLoads(_)
JsonLoads(doc) ==
    CASE doc.k = "jnull" -> PyNone
      [] doc.k = "jstr" -> PyStr(doc.v)
      [] doc.k = "jbool" -> PyBool(doc.v)
      [] doc.k = "jint" -> PyInt(doc.v)
      [] doc.k = "jfloat" -> PyFloat(doc.v)
      [] doc.k = "jarr" -> PyList([i \in 1..Len(doc.v) |-> JsonLoads(doc.v[i])])
      [] doc.k = "jobj" ->
            PyDict([i \in 1..Len(doc.v) |->
                      <<doc.v[i][1], JsonLoads(doc.v[i][2])>>])

(***************************************************************************)
(* SQL text, as a sequence of tokens.                                      *)
(***************************************************************************)
QUsers == <<"SELECT", "*", "FROM", "users">>
QUsersId == <<"SELECT", "*", "FROM", "users", "WHERE", "v", "=", "%s">>
QCalls == <<"SELECT", "*", "FROM", "calls">>
QCallsAt == <<"SELECT", "*", "FROM", "calls", "WHERE", "v", "=", "%s">>
QCallsAge == <<"SELECT", "TIMEDIFF", "(", "NOW", "(", ")", ",", "v", ")",
               "FROM", "calls">>
QShowTables == <<"SHOW", "TABLES", "LIKE", "%s">>
CInsUser == <<"INSERT", "INTO", "users", "(", "v", ")", "VALUES", "(", "%s", ")">>
CDelUsers == <<"DELETE", "FROM", "users">>
CDelCalls == <<"DELETE", "FROM", "calls">>
CInsCall == <<"INSERT", "INTO", "calls", "(", "v", ")", "VALUES", "(", "%s", ")">>

Tables == {"users", "calls"}

\* tokens made of word characters only (what \w+ matches whole)
WordTokens == {"SELECT", "FROM", "WHERE", "INSERT", "INTO", "DELETE",
               "UPDATE", "VALUES", "users", "calls", "v", "TIMEDIFF", "NOW",
               "SHOW", "TABLES", "LIKE"}

\* _extract_tables_from_query: the word that follows FROM, UPDATE,
\* INSERT INTO or DELETE FROM, duplicates removed.
ExtractTablesFromQuery(query) ==
    LET n == Len(query)
        after(kw) == {query[i + 1] : i \in {j \in 1..(n - 1) :
                          query[j] = kw /\ query[j + 1] \in WordTokens}}
        after2(kw1, kw2) == {query[i + 2] : i \in {j \in 1..(n - 2) :
                          /\ query[j] = kw1 /\ query[j + 1] = kw2
                          /\ query[j + 2] \in WordTokens}}
    IN  after("FROM") \cup after("UPDATE") \cup after2("INSERT", "INTO")
            \cup after2("DELETE", "FROM")

\* _generate_param_hash: the digest of the key-sorted JSON of the
\* parameters (the digest is taken as injective, so the JSON stands for it)
GenerateParamHash(params) == JsonDumps(params, FALSE, TRUE)

\* the cache key as it would be without sort_keys
GenerateCacheKey_unsorted(query, params) ==
    LET j == JsonDumps(params, FALSE, FALSE)
    IN  IF j.k = "TypeError" THEN TypeError
        ELSE [k |-> "key", q |-> query, p |-> j]

\* _generate_cache_key: the digest of "<query>:<JSON of the parameters>".
\* The digest is taken as injective, and so is the concatenation (the
\* JSON text json.dumps writes has no proper suffix that follows a ":"
\* and is itself such a text), so the pair stands for the key.
GenerateCacheKey(query, params) ==
    LET j == JsonDumps(params, FALSE, TRUE)
    IN  IF j.k = "TypeError" THEN TypeError
        ELSE [k |-> "key", q |-> query, p |-> j]

(***************************************************************************)
(* The inputs the calls are drawn from.                                    *)
(***************************************************************************)
Procs == {1, 2}

\* users.v is an integer column, calls.v a date-time column
\* (query, params) pairs given to execute_query
ReadInputs == {<<QUsers, PyNone>>, <<QCalls, PyNone>>,
               <<QCallsAge, PyNone>>,
               <<QUsersId, PyTuple(<<PyInt(1)>>)>>,
               <<QCallsAt, PyTuple(<<PyDateTime(1)>>)>>}

\* names given to table_exists, and the (query, params) pairs it reads with
TableNames == {"users", "nosuch"}
ShowInputs == {<<QShowTables, PyTuple(<<PyStr(n)>>)>> : n \in TableNames}

\* cache_ttl given to execute_query (86400 is the default)
CacheTtls == {60, 86400}

\* (query, params) given to _generate_cache_key called on its own
KeyQueries == {QUsers, QUsersId, QCalls}
KeyParams == {PyNone, PyTuple(<<>>), PyDict(<<>>),
              PyTuple(<<PyInt(1)>>), PyList(<<PyInt(1)>>),
              PyTuple(<<PyInt(2)>>), PyTuple(<<PyStr("x")>>),
              PyTuple(<<PyBool(TRUE)>>), PyTuple(<<PyFloat(1)>>),
              PyTuple(<<PyInt(1), PyInt(2)>>), PyTuple(<<PyInt(2), PyInt(1)>>),
              PyDict(<<<<"a", PyInt(1)>>, <<"b", PyInt(2)>>>>),
              PyDict(<<<<"b", PyInt(2)>>, <<"a", PyInt(1)>>>>),
              PyDict(<<<<"a", PyInt(2)>>, <<"b", PyInt(1)>>>>),
              PyDict(<<<<"c", PyInt(1)>>, <<"b", PyInt(2)>>>>),
              PyTuple(<<PyDateTime(1)>>)}

\* values of the kinds _convert_value converts, as rows may hold them
CodecValues == {PyNone, PyStr("x"), PyBool(TRUE), PyInt(42), PyFloat(3),
                PyDecimal(12), PyDateTime(1), PyDate(1),
                PyList(<<>>),
                PyList(<<Row(PyInt(1)), Row(PyStr("x"))>>),
                PyList(<<PyDict(<<<<"b", PyNone>>,
                                  <<"a", PyList(<<PyInt(1), PyFloat(2)>>)>>>>)>>),
                PyList(<<Row(PyDecimal(12))>>),
                PyList(<<Row(PyDateTime(2))>>),
                PyList(<<Row(PyDate(2))>>)}

\* (command, params) pairs given to execute_commit
WriteInputs == {<<CDelUsers, PyNone>>, <<CDelCalls, PyNone>>,
                <<CInsUser, PyTuple(<<PyInt(1)>>)>>}

\* params given to _invalidate_cache_for_table
InvalidateParams == {PyNone, PyTuple(<<>>), PyTuple(<<PyInt(1)>>)}

FetchModes == {"all", "many", "one", "first"}
FetchCounts == {PyNone, PyInt(1)}
ReturnModes == {"row", "count", "none"}

\* the parameter rows (1,), (2,), ... (n,) given to execute_many_commit
DataRows(n) == [i \in 1..n |-> PyTuple(<<PyDateTime(i)>>)]

(***************************************************************************)
(* The Redis keyspace.                                                     *)
(***************************************************************************)
Absent == [k |-> "absent"]
Star == [k |-> "*"]

CacheKeys == {GenerateCacheKey(in[1], in[2]) : in \in
                {i \in ReadInputs \cup ShowInputs :
                    JsonDumps(i[2], FALSE, TRUE).k # "TypeError"}}

ParamHashes == {GenerateParamHash(ps) : ps \in
                {in[2] : in \in ReadInputs} \cup InvalidateParams} \ {TypeError}

\* the name "table_cache:<table>:<suffix>"
TableKey(table, suffix) == [k |-> "table_cache", t |-> table, h |-> suffix]

IndexKeys == {TableKey(t, h) : t \in Tables, h \in ParamHashes \cup {Star}}

(***************************************************************************)
(* State.                                                                  *)
(***************************************************************************)
VARIABLES
    db,        \* MySQL: the committed rows of each table
    cache,     \* Redis strings: cache key -> JSON document, or Absent
    index,     \* Redis sets: table key -> set of cache keys
    active,    \* the callers that issue calls
    pc,        \* where each caller stands in its call
    call,      \* the arguments of the call
    conn,      \* the connection of the call: "none", "open", "closed"
    pending,   \* the row changes of the open transaction
    loc,       \* the locals of the call
    ret,       \* how the call ended: an envelope or an escaped exception
    events,    \* what the call did on the two servers, in order
    pre,       \* the Redis keyspace when the call began
    origin,    \* per cache key, the result the populating call returned
    dirty,     \* cache keys stored before a successful invalidating write
    left       \* calls the callers may still issue

vars == <<db, cache, index, active, pc, call, conn, pending, loc, ret,
          events, pre, origin, dirty, left>>

Ev(name, detail) == [e |-> name, x |-> detail]
Nothing == [k |-> "nothing"]

NoCall == [op |-> "none", query |-> <<>>, params |-> PyNone,
           fetch_mode |-> "all", fetch_count |-> PyNone, multi |-> FALSE,
           use_cache |-> FALSE, cache_ttl |-> 86400,
           invalidate_tables |-> FALSE,
           return_mode |-> "none", data |-> <<>>, batch_size |-> 0,
           table |-> "none"]

NoLoc == [cache_key |-> Nothing, result |-> Nothing, tables |-> {},
          table |-> "none", cache_keys |-> {}, i |-> 0]

NoRet == [k |-> "running"]

\* the {success, message, result} dictionary the public methods return
Envelope(success, message, result) ==
    [k |-> "envelope", success |-> success, message |-> message,
     result |-> result]

\* an exception that leaves the method
Raised(exc) == [k |-> "raised", exc |-> exc]

\* a plain return value (the private methods)
Returned(val) == [k |-> "returned", val |-> val]

InitWith(callers, calls) ==
    /\ db = [t \in Tables |-> <<>>]
    /\ cache = [key \in CacheKeys |-> Absent]
    /\ index = [tk \in IndexKeys |-> {}]
    /\ active = callers
    /\ pc = [p \in Procs |-> "idle"]
    /\ call = [p \in Procs |-> NoCall]
    /\ conn = [p \in Procs |-> "none"]
    /\ pending = [p \in Procs |-> <<>>]
    /\ loc = [p \in Procs |-> NoLoc]
    /\ ret = [p \in Procs |-> NoRet]
    /\ events = [p \in Procs |-> <<>>]
    /\ origin = [key \in CacheKeys |-> Absent]
    /\ pre = [p \in Procs |-> [cache |-> cache, index |-> index, db |-> db,
                                 origin |-> origin]]
    /\ dirty = {}
    /\ left = calls

Init == InitWith({1}, MaxCalls)

InitShort == InitWith({1}, MaxCallsShort)

Idle(p) == p \in active /\ pc[p] = "idle" /\ left > 0

(***************************************************************************)
(* The MySQL server: what a statement reads and changes.                   *)
(***************************************************************************)
\* the row change a write statement asks for
Change(command, params) ==
    CASE command = CInsUser -> [t |-> "users", op |-> "ins", v |-> params.v[1]]
      [] command = CInsCall -> [t |-> "calls", op |-> "ins", v |-> params.v[1]]
      [] command = CDelUsers -> [t |-> "users", op |-> "del", v |-> PyNone]
      [] command = CDelCalls -> [t |-> "calls", op |-> "del", v |-> PyNone]

Apply(tables, ch) ==
    [tables EXCEPT ![ch.t] = IF ch.op = "ins" THEN Append(@, ch.v) ELSE <<>>]

RECURSIVE ApplyAll(_, _)
ApplyAll(tables, changes) ==
    IF changes = <<>> THEN tables
    ELSE ApplyAll(Apply(tables, Head(changes)), Tail(changes))

\* v is the primary key of both tables: inserting a value the table
\* holds is a statement error
Violates(tables, ch) ==
    ch.op = "ins" /\ \E i \in 1..Len(tables[ch.t]) : tables[ch.t][i] = ch.v

\* cursor.rowcount and cursor.lastrowid after the change
RowCount(tables, ch) == IF ch.op = "ins" THEN 1 ELSE Len(tables[ch.t])
LastRowId(tables, ch) == IF ch.op = "ins" THEN Len(tables[ch.t]) + 1 ELSE 0

\* the rows a read statement selects, as dictionary-cursor rows
Select(query, params, tables) ==
    LET rows ==
          CASE query = QUsers -> tables["users"]
            [] query = QCalls -> tables["calls"]
            [] query = QUsersId ->
                 SelectSeq(tables["users"], LAMBDA r : r = params.v[1])
            [] query = QCallsAt ->
                 SelectSeq(tables["calls"], LAMBDA r : r = params.v[1])
            [] query = QCallsAge ->
                 [i \in 1..Len(tables["calls"]) |->
                    PyTimeDelta(tables["calls"][i].v)]
            [] query = QShowTables ->
                 IF params.v[1].v \in Tables THEN <<params.v[1]>> ELSE <<>>
    IN  [i \in 1..Len(rows) |-> Row(rows[i])]

Min(a, b) == IF a < b THEN a ELSE b

\* Python truthiness of the values the code tests
Truthy(val) ==
    CASE val.k = "none" -> FALSE
      [] val.k = "int" -> val.v # 0
      [] val.k \in {"list", "tuple"} -> Len(val.v) > 0
      [] OTHER -> TRUE

\* the fetch_mode dispatch of execute_query
Fetch(fetch_mode, fetch_count, rows) ==
    CASE fetch_mode = "all" -> PyList(rows)
      [] fetch_mode = "many" ->
            IF Truthy(fetch_count)
            THEN PyList(SubSeq(rows, 1, Min(fetch_count.v, Len(rows))))
            ELSE PyList(<<>>)
      [] fetch_mode = "one" -> IF rows = <<>> THEN PyNone ELSE rows[1]
      [] OTHER -> ValueError

(***************************************************************************)
(* execute_query                                                           *)
(***************************************************************************)
QuerySuccess(result) ==
    Envelope(TRUE, "MySQL Query Executed Successfully", result)

\* a call ends: its return value or exception, and whether its
\* connection was handed to _release_connection on the way out
Finish(p, outcome, release) ==
    /\ pc' = [pc EXCEPT ![p] = "done"]
    /\ ret' = [ret EXCEPT ![p] = outcome]
    /\ IF release
       THEN /\ conn' = [conn EXCEPT ![p] = "closed"]
            /\ pending' = [pending EXCEPT ![p] = <<>>]
       ELSE UNCHANGED <<conn, pending>>

Log(p, evs) == events' = [events EXCEPT ![p] = @ \o evs]

\* a call begins: its arguments, and the connection it asks for first
Begin(p, args, connected) ==
    /\ call' = [call EXCEPT ![p] = args]
    /\ left' = left - 1
    /\ pre' = [pre EXCEPT ![p] = [cache |-> cache, index |-> index, db |-> db,
                                 origin |-> origin]]
    /\ events' = [events EXCEPT ![p] =
                    <<Ev(IF connected THEN "connect" ELSE "connect_failed",
                         Nothing)>>]

\* what the caller gets: the envelope of execute_query, or (line 300)
\* the truth value of its success field when table_exists made the call
QueryReturn(p, envelope) ==
    IF call[p].op = "table_exists"
    THEN Returned(PyBool(envelope.success))
    ELSE envelope

QueryFailure == Envelope(FALSE, "error", PyList(<<>>))

\* lines 332-337: the connection, the cursor and the cache key
QueryEnter(p, args, connected) ==
    LET key == GenerateCacheKey(args.query, args.params)
    IN  /\ Begin(p, args, connected)
        /\ IF ~connected
           THEN /\ pc' = [pc EXCEPT ![p] = "done"]
                /\ ret' = [ret EXCEPT ![p] = Raised(MySQLError)]
                /\ conn' = [conn EXCEPT ![p] = "none"]
                /\ loc' = [loc EXCEPT ![p] = NoLoc]
           ELSE IF key.k = "TypeError"
           THEN /\ pc' = [pc EXCEPT ![p] = "done"]
                /\ ret' = [ret EXCEPT ![p] = Raised(TypeError)]
                /\ conn' = [conn EXCEPT ![p] = "open"]
                /\ loc' = [loc EXCEPT ![p] = NoLoc]
           ELSE /\ pc' = [pc EXCEPT ![p] =
                       IF args.use_cache /\ ~args.multi
                       THEN "q_lookup" ELSE "q_execute"]
                /\ ret' = [ret EXCEPT ![p] = NoRet]
                /\ conn' = [conn EXCEPT ![p] = "open"]
                /\ loc' = [loc EXCEPT ![p] = [NoLoc EXCEPT !.cache_key = key]]
        /\ pending' = [pending EXCEPT ![p] = <<>>]
        /\ UNCHANGED <<db, cache, index, active, origin, dirty>>

\* a call of execute_query (line 318)
QueryBegin(p) ==
    /\ Idle(p)
    /\ \E in \in ReadInputs, fm \in FetchModes, fc \in FetchCounts,
          mu \in BOOLEAN, uc \in BOOLEAN, ttl \in CacheTtls,
          connected \in BOOLEAN :
         /\ fm = "many" \/ fc = PyNone
         /\ mu => (uc /\ fm = "all")
         /\ ttl = 86400 \/ (uc /\ ~mu /\ fm = "all")
         /\ QueryEnter(p, [NoCall EXCEPT !.op = "execute_query",
                             !.query = in[1], !.params = in[2],
                             !.fetch_mode = fm, !.fetch_count = fc,
                             !.multi = mu, !.use_cache = uc,
                             !.cache_ttl = ttl],
                       connected)

\* a call execute_query(query, params) with the defaults of line 318 for
\* the other arguments
QueryBeginDefault(p) ==
    /\ Idle(p)
    /\ \E in \in ReadInputs, connected \in BOOLEAN :
         QueryEnter(p, [NoCall EXCEPT !.op = "execute_query",
                          !.query = in[1], !.params = in[2],
                          !.use_cache = TRUE],
                    connected)

\* table_exists, lines 298-299: execute_query of SHOW TABLES LIKE %s with
\* the name, fetch_mode "one" and the defaults of the other arguments
TableExistsBegin(p) ==
    /\ Idle(p)
    /\ \E in \in ShowInputs, connected \in BOOLEAN :
         QueryEnter(p, [NoCall EXCEPT !.op = "table_exists",
                          !.query = in[1], !.params = in[2],
                          !.fetch_mode = "one", !.use_cache = TRUE,
                          !.table = in[2].v[1].v],
                    connected)

\* the lookup as it would be if every falsy value read back were
\* answered with None
GetCachedQuery_falsy(key, redis_ok) ==
    IF redis_ok /\ cache[key] # Absent /\ Truthy(JsonLoads(cache[key]))
    THEN JsonLoads(cache[key]) ELSE PyNone

\* _get_cached_query: GET, then json.loads of what was found
GetCachedQuery(key, redis_ok) ==
    IF redis_ok /\ cache[key] # Absent THEN JsonLoads(cache[key]) ELSE PyNone

\* the lookup as it would be if only reads that name a table were
\* answered from the cache
QueryLookup_with_table(p) ==
    /\ p \in active /\ pc[p] = "q_lookup"
    /\ \E redis_ok \in BOOLEAN :
         LET cached_result ==
                 IF ExtractTablesFromQuery(call[p].query) = {} THEN PyNone
                 ELSE GetCachedQuery(loc[p].cache_key, redis_ok)
         IN  /\ Log(p, <<IF redis_ok THEN Ev("get", cache[loc[p].cache_key])
                                     ELSE Ev("get_failed", Nothing)>>)
             /\ IF cached_result # PyNone
                THEN /\ Finish(p, QueryReturn(p, QuerySuccess(cached_result)),
                               TRUE)
                     /\ UNCHANGED loc
                ELSE /\ pc' = [pc EXCEPT ![p] = "q_execute"]
                     /\ UNCHANGED <<ret, conn, pending, loc>>
    /\ UNCHANGED <<db, cache, index, active, call, pre, origin, dirty, left>>

\* lines 339-344: the lookup, and the return on a hit
QueryLookup(p) ==
    /\ p \in active /\ pc[p] = "q_lookup"
    /\ \E redis_ok \in BOOLEAN :
         LET cached_result == GetCachedQuery(loc[p].cache_key, redis_ok)
         IN  /\ Log(p, <<IF redis_ok THEN Ev("get", cache[loc[p].cache_key])
                                     ELSE Ev("get_failed", Nothing)>>)
             /\ IF cached_result # PyNone
                THEN /\ Finish(p, QueryReturn(p, QuerySuccess(cached_result)),
                               TRUE)
                     /\ UNCHANGED loc
                ELSE /\ pc' = [pc EXCEPT ![p] = "q_execute"]
                     /\ UNCHANGED <<ret, conn, pending, loc>>
    /\ UNCHANGED <<db, cache, index, active, call, pre, origin, dirty, left>>

\* the statement and the fetch as they would be if a statement error
\* were answered with an empty result that is cached like any other
QueryExecute_caches_error(p) ==
    /\ p \in active /\ pc[p] = "q_execute"
    /\ \E db_ok \in BOOLEAN :
         LET result == Fetch(call[p].fetch_mode, call[p].fetch_count,
                             Select(call[p].query, call[p].params, db))
         IN  IF ~db_ok /\ call[p].use_cache
             THEN /\ Log(p, <<Ev("execute_failed", Nothing)>>)
                  /\ pc' = [pc EXCEPT ![p] = "q_store"]
                  /\ loc' = [loc EXCEPT ![p].result = PyList(<<>>)]
                  /\ UNCHANGED <<ret, conn, pending>>
             ELSE IF ~db_ok \/ result = ValueError
             THEN /\ Log(p, <<Ev("execute", Nothing)>>)
                  /\ Finish(p, QueryReturn(p, QueryFailure), TRUE)
                  /\ UNCHANGED loc
             ELSE IF call[p].use_cache
             THEN /\ Log(p, <<Ev("execute", Nothing)>>)
                  /\ pc' = [pc EXCEPT ![p] = "q_store"]
                  /\ loc' = [loc EXCEPT ![p].result = result]
                  /\ UNCHANGED <<ret, conn, pending>>
             ELSE /\ Log(p, <<Ev("execute", Nothing)>>)
                  /\ Finish(p, QueryReturn(p, QuerySuccess(result)), TRUE)
                  /\ UNCHANGED loc
    /\ UNCHANGED <<db, cache, index, active, call, pre, origin, dirty, left>>

\* lines 346-356 and 364-370: the statement, the fetch, and the failures
QueryExecute(p) ==
    /\ p \in active /\ pc[p] = "q_execute"
    /\ \E db_ok \in BOOLEAN :
         LET result == Fetch(call[p].fetch_mode, call[p].fetch_count,
                             Select(call[p].query, call[p].params, db))
         IN  IF ~db_ok
             THEN /\ Log(p, <<Ev("execute_failed", Nothing)>>)
                  /\ Finish(p, QueryReturn(p, QueryFailure), TRUE)
                  /\ UNCHANGED loc
             ELSE IF result = ValueError
             THEN /\ Log(p, <<Ev("execute", Nothing)>>)
                  /\ Finish(p, QueryReturn(p, QueryFailure), TRUE)
                  /\ UNCHANGED loc
             ELSE IF call[p].use_cache
             THEN /\ Log(p, <<Ev("execute", Nothing)>>)
                  /\ pc' = [pc EXCEPT ![p] = "q_store"]
                  /\ loc' = [loc EXCEPT ![p].result = result]
                  /\ UNCHANGED <<ret, conn, pending>>
             ELSE /\ Log(p, <<Ev("execute", Nothing)>>)
                  /\ Finish(p, QueryReturn(p, QuerySuccess(result)), TRUE)
                  /\ UNCHANGED loc
    /\ UNCHANGED <<db, cache, index, active, call, pre, origin, dirty, left>>

\* the SETEX command: key, seconds, value
SetEx(key, ttl, doc) == [k |-> "setex", key |-> key, ttl |-> ttl, doc |-> doc]

\* the name of the set as it would be if keys were registered per table
RegistrationKey_star(table, params) == TableKey(table, Star)

\* lines 102-104: the name of the set a cache key is registered in
RegistrationKey(table, params) == TableKey(table, GenerateParamHash(params))

\* _cache_query as it would be with the registrations of lines 102-105
\* ahead of the store of line 100
CacheQuery_registers_first(p, key, doc, result, tables, params, ttl, stored, registered) ==
    /\ cache' = IF stored THEN [cache EXCEPT ![key] = doc] ELSE cache
    /\ index' = [tk \in IndexKeys |->
                   IF \E t \in tables : tk = RegistrationKey(t, params)
                   THEN index[tk] \cup {key} ELSE index[tk]]
    /\ origin' = IF stored THEN [origin EXCEPT ![key] = result] ELSE origin
    /\ dirty' = IF stored THEN dirty \ {key} ELSE dirty
    /\ Log(p, IF ~stored THEN <<Ev("redis_failed", Nothing)>>
              ELSE <<Ev("setex", SetEx(key, ttl, doc))>>)

\* _cache_query, lines 100-107: SETEX of the serialised result, then one
\* SADD per table; a Redis error stops it where it happens (registered is
\* the set of tables whose SADD was done)
CacheQuery(p, key, doc, result, tables, params, ttl, stored, registered) ==
    /\ cache' = IF stored THEN [cache EXCEPT ![key] = doc] ELSE cache
    /\ index' = [tk \in IndexKeys |->
                   IF stored /\ \E t \in registered :
                                   tk = RegistrationKey(t, params)
                   THEN index[tk] \cup {key} ELSE index[tk]]
    /\ origin' = IF stored THEN [origin EXCEPT ![key] = result] ELSE origin
    /\ dirty' = IF stored THEN dirty \ {key} ELSE dirty
    /\ Log(p, IF ~stored THEN <<Ev("redis_failed", Nothing)>>
              ELSE IF registered # tables
              THEN <<Ev("setex", SetEx(key, ttl, doc)),
                     Ev("redis_failed", Nothing)>>
              ELSE <<Ev("setex", SetEx(key, ttl, doc))>>)

\* the population as it would be if the rows were read again from the
\* database at the time of the store
QueryStore_refetch(p) ==
    /\ p \in active /\ pc[p] = "q_store"
    /\ LET tables == ExtractTablesFromQuery(call[p].query)
           result == Fetch(call[p].fetch_mode, call[p].fetch_count,
                           Select(call[p].query, call[p].params, db))
           serialized_result == JsonDumps(result, TRUE, FALSE)
       IN  IF IsError(serialized_result)
           THEN /\ Log(p, <<Ev("dumps_failed", Nothing)>>)
                /\ Finish(p, QueryReturn(p, QueryFailure), TRUE)
                /\ UNCHANGED <<cache, index, origin, dirty>>
           ELSE /\ \E stored \in BOOLEAN, registered \in SUBSET tables :
                     /\ ~stored => registered = {}
                     /\ CacheQuery(p, loc[p].cache_key, serialized_result,
                                   result, tables, call[p].params,
                                   call[p].cache_ttl, stored, registered)
                /\ Finish(p, QueryReturn(p, QuerySuccess(result)), TRUE)
    /\ UNCHANGED <<db, active, call, loc, pre, left>>

\* lines 358-362 with line 99: the result is serialised and the cache
\* populated, then the call returns; the ValueError of a result that
\* json.dumps cannot write leaves _cache_query and is caught at line 364
QueryStore(p) ==
    /\ p \in active /\ pc[p] = "q_store"
    /\ LET tables == ExtractTablesFromQuery(call[p].query)
           serialized_result == JsonDumps(loc[p].result, TRUE, FALSE)
       IN  IF IsError(serialized_result)
           THEN /\ Log(p, <<Ev("dumps_failed", Nothing)>>)
                /\ Finish(p, QueryReturn(p, QueryFailure), TRUE)
                /\ UNCHANGED <<cache, index, origin, dirty>>
           ELSE /\ \E stored \in BOOLEAN, registered \in SUBSET tables :
                     /\ ~stored => registered = {}
                     /\ CacheQuery(p, loc[p].cache_key, serialized_result,
                                   loc[p].result, tables, call[p].params,
                                   call[p].cache_ttl, stored, registered)
                /\ Finish(p, QueryReturn(p, QuerySuccess(loc[p].result)), TRUE)
    /\ UNCHANGED <<db, active, call, loc, pre, left>>

(***************************************************************************)
(* _invalidate_cache_for_table, run for each table of loc.tables in turn   *)
(* by execute_commit, or once when it is called on its own.                *)
(***************************************************************************)
\* lines 167-172: the name of the Redis set that is looked up
InvalidationKey(table_name, params) ==
    IF Truthy(params)
    THEN TableKey(table_name, GenerateParamHash(params))
    ELSE TableKey(table_name, Star)

\* SMEMBERS of a name: the members of the set stored under exactly that
\* name (no set is ever stored under a name that ends in "*")
SMembers(table_key) ==
    IF table_key \in IndexKeys THEN index[table_key] ELSE {}

\* the return of execute_commit, lines 398-405
CommitSuccess(p) ==
    Envelope(TRUE, "MySQL Commit Query Executed Successfully",
             IF call[p].return_mode = "none" THEN PyList(<<>>)
             ELSE loc[p].result)

\* the loop of lines 395-396 goes on to its next table, or the call ends
AfterInvalidation(p, rest) ==
    IF rest # {}
    THEN /\ pc' = [pc EXCEPT ![p] = "i_enumerate"]
         /\ UNCHANGED <<ret, conn, pending, dirty>>
    ELSE IF call[p].op = "execute_commit"
    THEN /\ Finish(p, CommitSuccess(p), TRUE)
         /\ dirty' = dirty \cup
               {key \in CacheKeys :
                  /\ \A i \in 1..Len(events'[p]) :
                        events'[p][i].e # "redis_failed"
                  /\ cache'[key] # Absent
                  /\ ExtractTablesFromQuery(key.q)
                       \cap ExtractTablesFromQuery(call[p].query) # {}}
    ELSE /\ Finish(p, Returned(PyNone), FALSE)
         /\ UNCHANGED dirty

\* the params the running invalidation was called with: none by
\* execute_commit (line 396)
InvalidationParams(p) ==
    IF call[p].op = "execute_commit" THEN PyNone ELSE call[p].params

\* lines 166-175: the set name and SMEMBERS
InvalidateEnumerate(p) ==
    /\ p \in active /\ pc[p] = "i_enumerate"
    /\ \E table \in loc[p].tables, redis_ok \in BOOLEAN :
         LET table_key == InvalidationKey(table, InvalidationParams(p))
             cache_keys == SMembers(table_key)
             rest == loc[p].tables \ {table}
         IN  IF redis_ok /\ cache_keys # {}
             THEN /\ Log(p, <<Ev("smembers", table_key)>>)
                  /\ pc' = [pc EXCEPT ![p] = "i_delete"]
                  /\ loc' = [loc EXCEPT ![p].table = table,
                                        ![p].cache_keys = cache_keys]
                  /\ UNCHANGED <<ret, conn, pending, dirty, cache>>
             ELSE /\ Log(p, <<IF redis_ok THEN Ev("smembers", table_key)
                                         ELSE Ev("redis_failed", table_key)>>)
                  /\ loc' = [loc EXCEPT ![p].tables = rest]
                  /\ UNCHANGED cache
                  /\ AfterInvalidation(p, rest)
    /\ UNCHANGED <<db, index, active, call, pre, origin, left>>

\* line 176: DEL of the cache keys that SMEMBERS returned
InvalidateDelete(p) ==
    /\ p \in active /\ pc[p] = "i_delete"
    /\ \E redis_ok \in BOOLEAN :
         LET table_key == InvalidationKey(loc[p].table, InvalidationParams(p))
             rest == loc[p].tables \ {loc[p].table}
         IN  IF redis_ok
             THEN /\ cache' = [key \in CacheKeys |->
                                 IF key \in loc[p].cache_keys
                                 THEN Absent ELSE cache[key]]
                  /\ origin' = [key \in CacheKeys |->
                                 IF key \in loc[p].cache_keys
                                 THEN Absent ELSE origin[key]]
                  /\ Log(p, <<Ev("del_keys", table_key)>>)
                  /\ pc' = [pc EXCEPT ![p] = "i_drop"]
                  /\ UNCHANGED <<loc, ret, conn, pending, dirty>>
             ELSE /\ Log(p, <<Ev("redis_failed", table_key)>>)
                  /\ loc' = [loc EXCEPT ![p].tables = rest,
                                        ![p].cache_keys = {}]
                  /\ UNCHANGED <<cache, origin>>
                  /\ AfterInvalidation(p, rest)
    /\ UNCHANGED <<db, index, active, call, pre, left>>

\* the end of the invalidation as it would be without line 177: the set
\* is left as it is
InvalidateDrop_keeps(p) ==
    /\ p \in active /\ pc[p] = "i_drop"
    /\ \E redis_ok \in BOOLEAN :
         LET table_key == InvalidationKey(loc[p].table, InvalidationParams(p))
             rest == loc[p].tables \ {loc[p].table}
         IN  /\ index' = index
             /\ Log(p, <<IF redis_ok THEN Ev("del", table_key)
                                     ELSE Ev("redis_failed", table_key)>>)
             /\ loc' = [loc EXCEPT ![p].tables = rest, ![p].cache_keys = {}]
             /\ AfterInvalidation(p, rest)
    /\ UNCHANGED <<db, cache, origin, active, call, pre, left>>

\* line 177: DEL of the set
InvalidateDrop(p) ==
    /\ p \in active /\ pc[p] = "i_drop"
    /\ \E redis_ok \in BOOLEAN :
         LET table_key == InvalidationKey(loc[p].table, InvalidationParams(p))
             rest == loc[p].tables \ {loc[p].table}
         IN  /\ index' = IF redis_ok
                         THEN [index EXCEPT ![table_key] = {}] ELSE index
             /\ Log(p, <<IF redis_ok THEN Ev("del", table_key)
                                     ELSE Ev("redis_failed", table_key)>>)
             /\ loc' = [loc EXCEPT ![p].tables = rest, ![p].cache_keys = {}]
             /\ AfterInvalidation(p, rest)
    /\ UNCHANGED <<db, cache, origin, active, call, pre, left>>

\* a call of _invalidate_cache_for_table(table_name, params) on its own
InvalidateBegin(p) ==
    /\ Idle(p)
    /\ \E table \in Tables, params \in InvalidateParams :
         /\ call' = [call EXCEPT ![p] =
                       [NoCall EXCEPT !.op = "_invalidate_cache_for_table",
                                      !.table = table, !.params = params]]
         /\ loc' = [loc EXCEPT ![p] = [NoLoc EXCEPT !.tables = {table}]]
    /\ left' = left - 1
    /\ pre' = [pre EXCEPT ![p] = [cache |-> cache, index |-> index, db |-> db,
                                 origin |-> origin]]
    /\ events' = [events EXCEPT ![p] = <<>>]
    /\ pc' = [pc EXCEPT ![p] = "i_enumerate"]
    /\ UNCHANGED <<db, cache, index, active, conn, pending, ret, origin,
                   dirty>>

(***************************************************************************)
(* execute_commit                                                          *)
(***************************************************************************)
\* the tables as they would be if the flag were not looked at
TablesToInvalidate_always(query, invalidate_tables) ==
    ExtractTablesFromQuery(query)

\* lines 393-394: the tables whose cache entries the call invalidates
TablesToInvalidate(query, invalidate_tables) ==
    IF invalidate_tables THEN ExtractTablesFromQuery(query) ELSE {}

\* line 385: the connection
CommitBegin(p) ==
    /\ Idle(p)
    /\ \E in \in WriteInputs, rm \in ReturnModes, inv \in BOOLEAN,
          connected \in BOOLEAN :
         /\ Begin(p, [NoCall EXCEPT !.op = "execute_commit",
                        !.query = in[1], !.params = in[2],
                        !.return_mode = rm, !.invalidate_tables = inv],
                  connected)
         /\ IF connected
            THEN /\ pc' = [pc EXCEPT ![p] = "c_execute"]
                 /\ ret' = [ret EXCEPT ![p] = NoRet]
                 /\ conn' = [conn EXCEPT ![p] = "open"]
            ELSE /\ pc' = [pc EXCEPT ![p] = "done"]
                 /\ ret' = [ret EXCEPT ![p] = Raised(MySQLError)]
                 /\ conn' = [conn EXCEPT ![p] = "none"]
    /\ loc' = [loc EXCEPT ![p] = NoLoc]
    /\ pending' = [pending EXCEPT ![p] = <<>>]
    /\ UNCHANGED <<db, cache, index, active, origin, dirty>>

\* line 388: the statement runs in the transaction of the connection
CommitExecute(p) ==
    /\ p \in active /\ pc[p] = "c_execute"
    /\ LET ch == Change(call[p].query, call[p].params)
       IN  \E db_ok \in BOOLEAN :
             IF db_ok /\ ~Violates(db, ch)
             THEN /\ pending' = [pending EXCEPT ![p] = <<ch>>]
                  /\ loc' = [loc EXCEPT ![p].result =
                               IF call[p].return_mode = "row"
                               THEN PyInt(LastRowId(db, ch))
                               ELSE PyInt(RowCount(db, ch))]
                  /\ pc' = [pc EXCEPT ![p] = "c_commit"]
                  /\ Log(p, <<Ev("execute", Nothing)>>)
             ELSE /\ pc' = [pc EXCEPT ![p] = "c_rollback"]
                  /\ Log(p, <<Ev("execute_failed", Nothing)>>)
                  /\ UNCHANGED <<pending, loc>>
    /\ UNCHANGED <<db, cache, index, active, call, conn, ret, pre, origin,
                   dirty, left>>

\* lines 389-394: the commit, and the tables to invalidate
CommitCommit(p) ==
    /\ p \in active /\ pc[p] = "c_commit"
    /\ \E db_ok \in BOOLEAN :
         LET tables == TablesToInvalidate(call[p].query,
                                          call[p].invalidate_tables)
         IN  IF db_ok
             THEN /\ db' = ApplyAll(db, pending[p])
                  /\ Log(p, <<Ev("commit", PyList(pending[p]))>>)
                  /\ loc' = [loc EXCEPT ![p].tables = tables]
                  /\ IF tables # {}
                     THEN /\ pc' = [pc EXCEPT ![p] = "i_enumerate"]
                          /\ pending' = [pending EXCEPT ![p] = <<>>]
                          /\ UNCHANGED <<ret, conn, dirty>>
                     ELSE /\ Finish(p, CommitSuccess(p), TRUE)
                          /\ UNCHANGED dirty
             ELSE /\ pc' = [pc EXCEPT ![p] = "c_rollback"]
                  /\ Log(p, <<Ev("commit_failed", Nothing)>>)
                  /\ UNCHANGED <<db, pending, loc, ret, conn, dirty>>
    /\ UNCHANGED <<cache, index, active, call, pre, origin, left>>

\* the handler as it would be with the invalidation moved into it
CommitRollback_invalidates(p) ==
    /\ p \in active /\ pc[p] = "c_rollback"
    /\ \E db_ok \in BOOLEAN :
         IF db_ok
         THEN /\ \E t \in ExtractTablesFromQuery(call[p].query) :
                   Log(p, <<Ev("rollback", Nothing),
                            Ev("smembers", InvalidationKey(t, PyNone))>>)
              /\ Finish(p, Envelope(FALSE, "error", PyList(<<>>)), TRUE)
         ELSE /\ Log(p, <<Ev("rollback_failed", Nothing)>>)
              /\ Finish(p, Raised(MySQLError), TRUE)
    /\ UNCHANGED <<db, cache, index, active, call, loc, pre, origin, dirty,
                   left>>

\* lines 406-413: the handler of mysql.connector.Error; an error of the
\* rollback leaves the method through the finally clause
CommitRollback(p) ==
    /\ p \in active /\ pc[p] = "c_rollback"
    /\ \E db_ok \in BOOLEAN :
         IF db_ok
         THEN /\ Log(p, <<Ev("rollback", Nothing)>>)
              /\ Finish(p, Envelope(FALSE, "error", PyList(<<>>)), TRUE)
         ELSE /\ Log(p, <<Ev("rollback_failed", Nothing)>>)
              /\ Finish(p, Raised(MySQLError), TRUE)
    /\ UNCHANGED <<db, cache, index, active, call, loc, pre, origin, dirty,
                   left>>

(***************************************************************************)
(* execute_many_commit                                                     *)
(***************************************************************************)
ZeroDivisionError == [k |-> "ZeroDivisionError"]

\* lines 427-434: the empty list, the connection, the number of batches
ManyBegin(p) ==
    /\ Idle(p)
    /\ \E n \in 0..MaxData, b \in 0..MaxBatch, connected \in BOOLEAN :
         LET args == [NoCall EXCEPT !.op = "execute_many_commit",
                        !.query = CInsCall, !.data = DataRows(n),
                        !.batch_size = b]
         IN  IF n = 0
             THEN /\ connected
                  /\ call' = [call EXCEPT ![p] = args]
                  /\ left' = left - 1
                  /\ pre' = [pre EXCEPT ![p] =
                              [cache |-> cache, index |-> index, db |-> db,
                                 origin |-> origin]]
                  /\ events' = [events EXCEPT ![p] = <<>>]
                  /\ pc' = [pc EXCEPT ![p] = "done"]
                  /\ ret' = [ret EXCEPT ![p] = Envelope(FALSE,
                        "No data provided for batch execution.", PyList(<<>>))]
                  /\ conn' = [conn EXCEPT ![p] = "none"]
             ELSE /\ Begin(p, args, connected)
                  /\ IF ~connected
                     THEN /\ pc' = [pc EXCEPT ![p] = "done"]
                          /\ ret' = [ret EXCEPT ![p] = Raised(MySQLError)]
                          /\ conn' = [conn EXCEPT ![p] = "none"]
                     ELSE IF b = 0
                     THEN /\ pc' = [pc EXCEPT ![p] = "done"]
                          /\ ret' = [ret EXCEPT ![p] = Raised(ZeroDivisionError)]
                          /\ conn' = [conn EXCEPT ![p] = "closed"]
                     ELSE /\ pc' = [pc EXCEPT ![p] = "m_execute"]
                          /\ ret' = [ret EXCEPT ![p] = NoRet]
                          /\ conn' = [conn EXCEPT ![p] = "open"]
    /\ loc' = [loc EXCEPT ![p] = NoLoc]
    /\ pending' = [pending EXCEPT ![p] = <<>>]
    /\ UNCHANGED <<db, cache, index, active, origin, dirty>>

BatchData_short(data, i, batch_size) ==
    SubSeq(data, i + 1, Min(i + batch_size, Len(data)) - 1)

\* line 437: batch_data = data[i:i + batch_size]
BatchData(data, i, batch_size) ==
    SubSeq(data, i + 1, Min(i + batch_size, Len(data)))

\* the first row of the batch the server refuses, 0 when it takes them all
RECURSIVE FirstRefused(_, _, _)
FirstRefused(tables, changes, j) ==
    IF j > Len(changes) THEN 0
    ELSE IF Violates(tables, changes[j]) THEN j
    ELSE FirstRefused(Apply(tables, changes[j]), changes, j + 1)

ManyFailure == Envelope(FALSE, "error", PyList(<<>>))

AfterFailedBatch_autocommit(tables, changes, refused) ==
    ApplyAll(tables, SubSeq(changes, 1, refused - 1))

\* lines 443-447: the handler neither commits nor rolls back, and the
\* connection is closed with the rows of the refused batch uncommitted
AfterFailedBatch(tables, changes, refused) == tables

\* line 438 (and 443-447): executemany runs the statement for the rows of
\* the batch; an error at a row ends the call with the rows before it
\* uncommitted
ManyExecute(p) ==
    /\ p \in active /\ pc[p] = "m_execute"
    /\ LET batch_data == BatchData(call[p].data, loc[p].i, call[p].batch_size)
           changes == [j \in 1..Len(batch_data) |->
                         Change(call[p].query, batch_data[j])]
           refused == FirstRefused(db, changes, 1)
       IN  \E broken \in 0..Len(batch_data) :
             IF refused = 0 /\ broken = 0
             THEN /\ pending' = [pending EXCEPT ![p] = changes]
                  /\ pc' = [pc EXCEPT ![p] = "m_commit"]
                  /\ Log(p, <<Ev("executemany", PyList(batch_data))>>)
                  /\ UNCHANGED <<ret, conn, db>>
             ELSE /\ Log(p, <<Ev("execute_failed", PyList(batch_data))>>)
                  /\ Finish(p, ManyFailure, TRUE)
                  /\ db' = AfterFailedBatch(db, changes,
                         IF refused = 0 THEN broken
                         ELSE IF broken = 0 THEN refused
                         ELSE Min(refused, broken))
    /\ UNCHANGED <<cache, index, active, call, loc, pre, origin, dirty,
                   left>>

\* the commit of a batch as it would be if it dropped the cached reads of
\* the tables of the command
ManyCommit_invalidates(p) ==
    /\ p \in active /\ pc[p] = "m_commit"
    /\ \E db_ok \in BOOLEAN :
         IF db_ok
         THEN /\ db' = ApplyAll(db, pending[p])
              /\ cache' = [key \in CacheKeys |->
                             IF ExtractTablesFromQuery(key.q) \cap
                                ExtractTablesFromQuery(call[p].query) # {}
                             THEN Absent ELSE cache[key]]
              /\ Log(p, <<Ev("commit", PyList(pending[p]))>>)
              /\ loc' = [loc EXCEPT ![p].i = @ + call[p].batch_size]
              /\ IF loc[p].i + call[p].batch_size < Len(call[p].data)
                 THEN /\ pc' = [pc EXCEPT ![p] = "m_execute"]
                      /\ pending' = [pending EXCEPT ![p] = <<>>]
                      /\ UNCHANGED <<ret, conn>>
                 ELSE Finish(p, Envelope(TRUE,
                        "MySQL Multi-Commit Executed Successfully",
                        PyList(<<>>)), TRUE)
         ELSE /\ Log(p, <<Ev("commit_failed", Nothing)>>)
              /\ Finish(p, ManyFailure, TRUE)
              /\ UNCHANGED <<db, loc, cache>>
    /\ UNCHANGED <<index, active, call, pre, origin, dirty, left>>

\* lines 439-442: the commit of the batch, and the next batch or the return
ManyCommit(p) ==
    /\ p \in active /\ pc[p] = "m_commit"
    /\ \E db_ok \in BOOLEAN :
         IF db_ok
         THEN /\ db' = ApplyAll(db, pending[p])
              /\ Log(p, <<Ev("commit", PyList(pending[p]))>>)
              /\ loc' = [loc EXCEPT ![p].i = @ + call[p].batch_size]
              /\ IF loc[p].i + call[p].batch_size < Len(call[p].data)
                 THEN /\ pc' = [pc EXCEPT ![p] = "m_execute"]
                      /\ pending' = [pending EXCEPT ![p] = <<>>]
                      /\ UNCHANGED <<ret, conn>>
                 ELSE Finish(p, Envelope(TRUE,
                        "MySQL Multi-Commit Executed Successfully",
                        PyList(<<>>)), TRUE)
         ELSE /\ Log(p, <<Ev("commit_failed", Nothing)>>)
              /\ Finish(p, ManyFailure, TRUE)
              /\ UNCHANGED <<db, loc>>
    /\ UNCHANGED <<cache, index, active, call, pre, origin, dirty, left>>

(***************************************************************************)
(* The passing of time: a result stored with SETEX expires.  (A caller that *)
(* holds the outcome of its call leaves before the clock moves on.)        *)
(***************************************************************************)
Expire ==
    /\ \A p \in active : pc[p] # "done"
    /\ \E key \in CacheKeys :
         /\ cache[key] # Absent
         /\ cache' = [cache EXCEPT ![key] = Absent]
         /\ origin' = [origin EXCEPT ![key] = Absent]
         /\ dirty' = dirty \ {key}
    /\ UNCHANGED <<db, index, active, pc, call, conn, pending, loc, ret,
                   events, pre, left>>

\* the caller takes what the call returned or raised and goes on; the
\* frame of the call is gone
Leave(p) ==
    /\ p \in active /\ pc[p] = "done"
    /\ pc' = [pc EXCEPT ![p] = "idle"]
    /\ call' = [call EXCEPT ![p] = NoCall]
    /\ conn' = [conn EXCEPT ![p] = "none"]
    /\ loc' = [loc EXCEPT ![p] = NoLoc]
    /\ ret' = [ret EXCEPT ![p] = NoRet]
    /\ events' = [events EXCEPT ![p] = <<>>]
    /\ pre' = [pre EXCEPT ![p] = [cache |-> [key \in CacheKeys |-> Absent],
                                  index |-> [tk \in IndexKeys |-> {}],
                                  db |-> [t \in Tables |-> <<>>],
                                  origin |-> [key \in CacheKeys |-> Absent]]]
    /\ UNCHANGED <<db, cache, index, active, pending, origin, dirty, left>>

\* two callers at the same time: one that invalidates, one that reads
Invalidators == {1}
Readers == {2}

InitRace == InitWith(Invalidators \cup Readers, MaxCallsRace)

NextRace ==
    \/ \E p \in Readers : QueryBeginDefault(p)
    \/ \E p \in Procs : QueryLookup(p)
    \/ \E p \in Procs : QueryExecute(p)
    \/ \E p \in Procs : QueryStore(p)
    \/ \E p \in Invalidators : InvalidateBegin(p)
    \/ \E p \in Procs : InvalidateEnumerate(p)
    \/ \E p \in Procs : InvalidateDelete(p)
    \/ \E p \in Procs : InvalidateDrop(p)
    \/ \E p \in Procs : Leave(p)

SpecRace == InitRace /\ [][NextRace]_vars

\* two callers at the same time: one that writes or invalidates, one
\* that reads
Writers == {1}

InitReadWrite == InitWith(Writers \cup Readers, MaxCallsReadWrite)

NextReadWrite ==
    \/ \E p \in Readers : QueryBeginDefault(p)
    \/ \E p \in Procs : QueryLookup(p)
    \/ \E p \in Procs : QueryExecute(p)
    \/ \E p \in Procs : QueryStore(p)
    \/ \E p \in Writers : CommitBegin(p)
    \/ \E p \in Procs : CommitExecute(p)
    \/ \E p \in Procs : CommitCommit(p)
    \/ \E p \in Procs : CommitRollback(p)
    \/ \E p \in Writers : InvalidateBegin(p)
    \/ \E p \in Procs : InvalidateEnumerate(p)
    \/ \E p \in Procs : InvalidateDelete(p)
    \/ \E p \in Procs : InvalidateDrop(p)
    \/ \E p \in Procs : Leave(p)

SpecReadWrite == InitReadWrite /\ [][NextReadWrite]_vars

(***************************************************************************)
(* The pure functions, called on their own.                                *)
(***************************************************************************)
\* the frame of a call that touches neither server
PureCall(p, args, outcome) ==
    /\ call' = [call EXCEPT ![p] = args]
    /\ ret' = [ret EXCEPT ![p] = outcome]
    /\ pc' = [pc EXCEPT ![p] = "done"]
    /\ left' = left - 1
    /\ events' = [events EXCEPT ![p] = <<>>]
    /\ UNCHANGED <<db, cache, index, active, conn, pending, loc, pre, origin,
                   dirty>>

\* _generate_cache_key(query, params)
GenerateCacheKeyCall(p) ==
    /\ Idle(p)
    /\ \E query \in KeyQueries, params \in KeyParams :
         LET key == GenerateCacheKey(query, params)
         IN  PureCall(p, [NoCall EXCEPT !.op = "_generate_cache_key",
                            !.query = query, !.params = params],
                      IF IsError(key) THEN Raised(key) ELSE Returned(key))

\* what _cache_query writes for a value (line 99) and what
\* _get_cached_query reads back from it (line 137)
CacheRoundTrip(p) ==
    /\ Idle(p)
    /\ \E val \in CodecValues :
         LET doc == JsonDumps(val, TRUE, FALSE)
         IN  PureCall(p, [NoCall EXCEPT !.op = "json.loads(json.dumps)",
                            !.params = val],
                      IF IsError(doc) THEN Raised(doc)
                      ELSE Returned(JsonLoads(doc)))

InitPure == InitWith({1, 2}, MaxCallsPure)

NextPure ==
    \/ \E p \in Procs : GenerateCacheKeyCall(p)
    \/ \E p \in Procs : CacheRoundTrip(p)
    \/ \E p \in Procs : Leave(p)

\* two callers and the pure functions only
SpecPure == InitPure /\ [][NextPure]_vars

Next ==
    \/ \E p \in Procs : QueryBegin(p)
    \/ \E p \in Procs : QueryLookup(p)
    \/ \E p \in Procs : QueryExecute(p)
    \/ \E p \in Procs : QueryStore(p)
    \/ \E p \in Procs : CommitBegin(p)
    \/ \E p \in Procs : CommitExecute(p)
    \/ \E p \in Procs : CommitCommit(p)
    \/ \E p \in Procs : CommitRollback(p)
    \/ \E p \in Procs : ManyBegin(p)
    \/ \E p \in Procs : ManyExecute(p)
    \/ \E p \in Procs : ManyCommit(p)
    \/ \E p \in Procs : InvalidateBegin(p)
    \/ \E p \in Procs : InvalidateEnumerate(p)
    \/ \E p \in Procs : InvalidateDelete(p)
    \/ \E p \in Procs : InvalidateDrop(p)
    \/ \E p \in Procs : TableExistsBegin(p)
    \/ \E p \in Procs : Leave(p)
    \/ Expire

Spec == Init /\ [][Next]_vars

\* the same system with fewer calls in a run
SpecShort == InitShort /\ [][Next]_vars

(***************************************************************************)
(* What a finished call did.                                               *)
(***************************************************************************)
Done(p, op) == pc[p] = "done" /\ call[p].op = op

Did(p, name) == \E i \in 1..Len(events[p]) : events[p][i].e = name

Count(p, name) == Cardinality({i \in 1..Len(events[p]) : events[p][i].e = name})

\* the positions of the Redis steps of the invalidation
InvalidationSteps(p) ==
    {i \in 1..Len(events[p]) :
        /\ events[p][i].e \in {"smembers", "del_keys", "del", "redis_failed"}
        /\ events[p][i].x.k = "table_cache"}

\* the lookup of the call found a document under its key
FoundCached(p) ==
    \E i \in 1..Len(events[p]) :
        events[p][i].e = "get" /\ events[p][i].x # Absent

PublicOps == {"execute_query", "execute_commit", "execute_many_commit"}

FailureEnvelope(r) ==
    r.k = "envelope" /\ r.success = FALSE /\ r.result = PyList(<<>>)

(***************************************************************************)
(* The claims.                                                             *)
(***************************************************************************)

\* C1: once a query that references table T has been cached and a
\* statement on T has then been committed by execute_commit with
\* invalidate_tables=True (no Redis error on the way), a later
\* execute_query of that query with use_cache=True is not answered from
\* the cache: no call succeeds without executing its statement while its
\* key is one of those stored before the write.
C1_ReadAfterWriteIsMiss ==
    \A p \in Procs :
        (/\ Done(p, "execute_query")
         /\ call[p].use_cache
         /\ ret[p].k = "envelope" /\ ret[p].success
         /\ ~Did(p, "execute"))
        => loc[p].cache_key \notin dirty

\* C2: when execute_commit with invalidate_tables=True has returned
\* success (no Redis error on the way), then for every table extracted
\* from the command every index entry table_cache:T:<param_hash> is gone
\* and every cache key that was a member of one is gone from the cache.
C2_WriteClearsTable ==
    \A p \in Procs :
        (/\ Done(p, "execute_commit")
         /\ call[p].invalidate_tables
         /\ ret[p].k = "envelope" /\ ret[p].success
         /\ ~Did(p, "redis_failed"))
        => \A t \in ExtractTablesFromQuery(call[p].query), h \in ParamHashes :
              /\ index[TableKey(t, h)] = {}
              /\ \A key \in pre[p].index[TableKey(t, h)] : cache[key] = Absent

\* C3: a call of execute_query with use_cache=True (and multi off) whose
\* lookup finds an entry under its key returns success with the rows the
\* populating call returned, and executes no statement.
C3_SecondReadIsHit ==
    \A p \in Procs :
        (/\ Done(p, "execute_query")
         /\ call[p].use_cache /\ ~call[p].multi
         /\ FoundCached(p))
        => /\ ret[p] = QuerySuccess(pre[p].origin[loc[p].cache_key])
           /\ ~Did(p, "execute")

\* C4: every call of the three public methods ends in an envelope, and in
\* a failure envelope with result [] when the connection, the statement,
\* the commit or the rollback failed.
C4_AlwaysEnvelope ==
    \A p \in Procs :
        (pc[p] = "done" /\ call[p].op \in PublicOps)
        => /\ ret[p].k = "envelope"
           /\ (\/ Did(p, "connect_failed") \/ Did(p, "execute_failed")
               \/ Did(p, "commit_failed") \/ Did(p, "rollback_failed"))
              => FailureEnvelope(ret[p])

\* C5: a finished call of a public method has opened at most one
\* connection and has no connection open.
C5_ConnectionReleased ==
    \A p \in Procs :
        (pc[p] = "done" /\ call[p].op \in PublicOps)
        => /\ Count(p, "connect") <= 1
           /\ conn[p] # "open"

\* C6: a call of execute_query with use_cache=True (and multi off) whose
\* key has an entry in the cache returns the decoded entry, having opened
\* no connection and executed no statement.
C6_HitTouchesNoDatabase ==
    \A p \in Procs :
        (/\ Done(p, "execute_query")
         /\ call[p].use_cache /\ ~call[p].multi
         /\ FoundCached(p))
        => /\ ret[p] = QuerySuccess(JsonLoads(pre[p].cache[loc[p].cache_key]))
           /\ ~Did(p, "connect")
           /\ ~Did(p, "execute")

\* C7: when the statement or the commit of execute_commit failed, the
\* call has rolled the transaction back, released the connection, left
\* the tables as they were, and returned a failure envelope.
C7_FailedWriteRollsBack ==
    \A p \in Procs :
        (/\ Done(p, "execute_commit")
         /\ Did(p, "execute_failed") \/ Did(p, "commit_failed"))
        => /\ Did(p, "rollback")
           /\ conn[p] = "closed"
           /\ db = pre[p].db
           /\ FailureEnvelope(ret[p])

\* the position of the commit in the events of the call
CommitAt(p) == CHOOSE i \in 1..Len(events[p]) : events[p][i].e = "commit"

\* first outcome: the statement is committed, no rollback is issued, and
\* the invalidation (of every extracted table when invalidate_tables is
\* set, of none otherwise) comes after the commit, on the open connection
CommittedThenInvalidated(p) ==
    /\ Count(p, "commit") = 1
    /\ ~Did(p, "rollback") /\ ~Did(p, "rollback_failed")
    /\ db = Apply(pre[p].db, Change(call[p].query, call[p].params))
    /\ \A i \in InvalidationSteps(p) : i > CommitAt(p)
    /\ IF call[p].invalidate_tables
       THEN \A t \in ExtractTablesFromQuery(call[p].query) :
               \E i \in InvalidationSteps(p) :
                  /\ events[p][i].x.t = t
                  /\ events[p][i].e \in {"smembers", "redis_failed"}
       ELSE InvalidationSteps(p) = {}
    /\ conn[p] = "closed"

\* second outcome: nothing is committed, the transaction of a statement
\* that was sent is ended by ROLLBACK before the connection is released,
\* and no invalidation step is performed
RolledBackNotInvalidated(p) ==
    /\ ~Did(p, "commit")
    /\ db = pre[p].db
    /\ Did(p, "connect") =>
          /\ events[p][Len(events[p])].e \in {"rollback", "rollback_failed"}
          /\ conn[p] = "closed" /\ pending[p] = <<>>
    /\ InvalidationSteps(p) = {}

\* C8: every run of execute_commit ends in exactly one of the two
\* outcomes: committed and then invalidated, or rolled back and not
\* invalidated.
C8_CommitThenInvalidateOrRollback ==
    \A p \in Procs :
        Done(p, "execute_commit")
        => (CommittedThenInvalidated(p) # RolledBackNotInvalidated(p))

C8_Witness ==
    \E p \in Procs :
        /\ Done(p, "execute_commit")
        /\ call[p].invalidate_tables
        /\ Did(p, "commit")
        /\ InvalidationSteps(p) # {}

\* the events of the first c batches of a call of execute_many_commit
RECURSIVE BatchEvents(_, _, _)
BatchEvents(data, b, c) ==
    IF c = 0 THEN <<>>
    ELSE LET rows == SubSeq(data, (c - 1) * b + 1, Min(c * b, Len(data)))
         IN  BatchEvents(data, b, c - 1) \o
             <<Ev("executemany", PyList(rows)),
               Ev("commit", PyList([j \in 1..Len(rows) |->
                     [t |-> "calls", op |-> "ins", v |-> rows[j].v[1]]]))>>

\* the column values of the first m parameter rows
FirstValues(data, m) == [j \in 1..m |-> data[j].v[1]]

\* C9: when batch k of execute_many_commit fails, the call returns a
\* failure envelope; the table holds the rows of batches 1..k-1 and none
\* of batch k; batches 1..k-1 were each executed and committed, nothing
\* was executed after the failing batch, and no rollback was issued.
C9_FailedBatchKeepsEarlierBatches ==
    \A p \in Procs :
        (Done(p, "execute_many_commit") /\ Did(p, "execute_failed"))
        => LET c == Count(p, "commit")
               b == call[p].batch_size
               data == call[p].data
           IN  /\ FailureEnvelope(ret[p])
               /\ c * b < Len(data)
               /\ db["calls"] = pre[p].db["calls"] \o FirstValues(data, c * b)
               /\ db["users"] = pre[p].db["users"]
               /\ events[p] = <<Ev("connect", Nothing)>>
                    \o BatchEvents(data, b, c)
                    \o <<Ev("execute_failed", PyList(
                          SubSeq(data, c * b + 1, Min((c + 1) * b, Len(data)))))>>
               /\ conn[p] = "closed"

C9_Witness ==
    \E p \in Procs :
        /\ Done(p, "execute_many_commit")
        /\ Did(p, "execute_failed")
        /\ Count(p, "commit") >= 1
        /\ Len(call[p].data) > (Count(p, "commit") + 1) * call[p].batch_size

\* C10: a call of execute_many_commit with N >= 1 rows and batch size
\* b >= 1 in which nothing fails returns success, having opened one
\* connection and executed and committed, in this order, the batches of
\* rows 1..b, b+1..2b, ..., the last one holding the remainder: ceil(N/b)
\* commits, after which the table holds the N rows in their order.
C10_BatchesInOrder ==
    \A p \in Procs :
        (/\ Done(p, "execute_many_commit")
         /\ Len(call[p].data) >= 1 /\ call[p].batch_size >= 1
         /\ ~Did(p, "connect_failed") /\ ~Did(p, "execute_failed")
         /\ ~Did(p, "commit_failed"))
        => LET b == call[p].batch_size
               data == call[p].data
               n == Len(data)
               c == CHOOSE k \in 1..n : (k - 1) * b < n /\ n <= k * b
           IN  /\ ret[p].k = "envelope" /\ ret[p].success
               /\ ret[p].result = PyList(<<>>)
               /\ Count(p, "connect") = 1
               /\ Count(p, "commit") = c
               /\ events[p] = <<Ev("connect", Nothing)>> \o BatchEvents(data, b, c)
               /\ db["calls"] = pre[p].db["calls"] \o FirstValues(data, n)
               /\ conn[p] = "closed"

\* five rows in batches of two: three commits, of 2, 2 and 1 rows
C10_Witness ==
    \E p \in Procs :
        /\ Done(p, "execute_many_commit")
        /\ ret[p].k = "envelope" /\ ret[p].success
        /\ Len(call[p].data) = 5 /\ call[p].batch_size = 2
        /\ Count(p, "commit") = 3
        /\ Len(events[p][7].x.v) = 1

ValidFetchModes == {"all", "many", "one"}

\* C11: a failure of Redis never changes the outcome of a call: a lookup
\* that fails is a miss and the statement is executed; when the statement
\* was executed and fetched and the population of the cache fails (Redis,
\* or the serialisation of the rows), execute_query returns success with
\* the fetched rows; when the commit was done and the invalidation fails,
\* execute_commit returns success.
C11_CacheFailureHarmless ==
    \A p \in Procs :
        /\ (Done(p, "execute_query") /\ Did(p, "get_failed"))
           => (Did(p, "execute") \/ Did(p, "execute_failed"))
        /\ (/\ Done(p, "execute_query")
            /\ Did(p, "execute")
            /\ call[p].fetch_mode \in ValidFetchModes
            /\ Did(p, "redis_failed") \/ Did(p, "dumps_failed"))
           => ret[p] = QuerySuccess(loc[p].result)
        /\ (/\ Done(p, "execute_commit")
            /\ Did(p, "commit")
            /\ Did(p, "redis_failed"))
           => (ret[p].k = "envelope" /\ ret[p].success)

\* C12: execute_many_commit performs no cache invalidation: no step of a
\* call of execute_many_commit, whatever its input and its outcome,
\* changes the result cache or an entry of the table index.
C12_ManyCommitKeepsCache ==
    [][\A p \in Procs :
          (call'[p].op = "execute_many_commit" /\ pc'[p] # pc[p])
          => (cache' = cache /\ index' = index)]_vars

\* rows were committed to a table and a read of that table cached before
\* the call is still cached and registered
C12_Witness ==
    \E p \in Procs, key \in CacheKeys :
        /\ Done(p, "execute_many_commit")
        /\ ret[p].k = "envelope" /\ ret[p].success
        /\ db # pre[p].db
        /\ ExtractTablesFromQuery(key.q)
             \cap ExtractTablesFromQuery(call[p].query) # {}
        /\ pre[p].cache[key] # Absent
        /\ cache[key] = pre[p].cache[key]
        /\ \E tk \in IndexKeys : key \in index[tk]

\* the parameter values of a call, whatever the kind of sequence that
\* holds them and whatever the order a mapping was built in
RECURSIVE ParamValues(_)
ParamValues(params) ==
    CASE params.k \in {"list", "tuple"} ->
            [k |-> "sequence",
             v |-> [i \in 1..Len(params.v) |-> ParamValues(params.v[i])]]
      [] params.k = "dict" ->
            [k |-> "mapping",
             v |-> {<<params.v[i][1], ParamValues(params.v[i][2])>> :
                       i \in 1..Len(params.v)}]
      [] OTHER -> params

KeyCalls == {p \in Procs : Done(p, "_generate_cache_key")}

\* C13: the cache key is a function of (query, params): two calls with
\* the same arguments end the same way, and two calls that return a key
\* return the same key exactly when they have the same query text and the
\* same parameter values (mappings that differ in the order of their keys
\* have the same values).
C13_CacheKeyDeterministicInjective ==
    \A p \in KeyCalls, q \in KeyCalls :
        /\ (call[p].query = call[q].query /\ call[p].params = call[q].params)
           => ret[p] = ret[q]
        /\ (ret[p].k = "returned" /\ ret[q].k = "returned")
           => ((ret[p].val = ret[q].val)
               <=> (/\ call[p].query = call[q].query
                    /\ ParamValues(call[p].params) = ParamValues(call[q].params)))

\* two mappings built in different orders get the same key
C13_Witness ==
    \E p \in KeyCalls, q \in KeyCalls :
        /\ call[p].params.k = "dict" /\ call[q].params.k = "dict"
        /\ call[p].params # call[q].params
        /\ call[p].query = call[q].query
        /\ ret[p].k = "returned" /\ ret[p] = ret[q]

\* a value read back from the cache is equivalent to the value stored:
\* the same kind and the same value, element by element in a list and
\* member by member in a mapping; a decimal may come back as the float of
\* its value
RECURSIVE Equivalent(_, _)
Equivalent(stored, read) ==
    CASE stored.k = "decimal" -> read = PyFloat(stored.v)
      [] stored.k = "list" ->
            /\ read.k = "list" /\ Len(read.v) = Len(stored.v)
            /\ \A i \in 1..Len(stored.v) : Equivalent(stored.v[i], read.v[i])
      [] stored.k = "dict" ->
            /\ read.k = "dict" /\ Len(read.v) = Len(stored.v)
            /\ \A i \in 1..Len(stored.v) :
                  /\ read.v[i][1] = stored.v[i][1]
                  /\ Equivalent(stored.v[i][2], read.v[i][2])
      [] OTHER -> read = stored

\* C14: for a value of every kind the codec accepts, what is read back
\* from the cache is equivalent to what was stored.
C14_RoundTripEquivalent ==
    \A p \in Procs :
        Done(p, "json.loads(json.dumps)")
        => /\ ret[p].k = "returned"
           /\ Equivalent(call[p].params, ret[p].val)

\* the running call of p is an execute_query (made directly or by
\* table_exists) of the (text, params) pair of the key, and it has
\* executed its statement and fetched its result without an error
FetchedFor(p, key) ==
    /\ call[p].op \in {"execute_query", "table_exists"}
    /\ GenerateCacheKey(call[p].query, call[p].params) = key
    /\ Did(p, "execute") /\ ~Did(p, "execute_failed")
    /\ call[p].fetch_mode \in ValidFetchModes
    /\ loc[p].result = Fetch(call[p].fetch_mode, call[p].fetch_count,
                             Select(call[p].query, call[p].params, db))

\* the finished read of p failed at its statement or at its fetch mode
FailedRead(p) ==
    /\ Done(p, "execute_query")
    /\ \/ Did(p, "execute_failed")
       \/ Did(p, "execute") /\ call[p].fetch_mode \notin ValidFetchModes

\* C15: every step that writes a cache entry, or adds a key to an index
\* entry, is a step of an execute_query call with the (text, params) pair
\* of that key whose statement was executed and fetched successfully; a
\* read that fails at its statement or at its fetch mode has issued no
\* SETEX and no SADD.
C15_EntriesComeFromSuccessfulReads ==
    [][/\ \A key \in CacheKeys :
             (cache'[key] # Absent /\ cache'[key] # cache[key])
             => \E p \in Procs :
                   /\ FetchedFor(p, key)
                   /\ cache'[key] = JsonDumps(loc[p].result, TRUE, FALSE)
       /\ \A tk \in IndexKeys : \A key \in index'[tk] \ index[tk] :
             \E p \in Procs : FetchedFor(p, key)
       /\ \A p \in Procs :
             FailedRead(p)'
             => (/\ ~Did(p, "setex")' /\ ~Did(p, "redis_failed")'
                 /\ cache' = cache /\ index' = index)]_vars

\* a read has populated the cache and registered its key
C15_Witness ==
    \E p \in Procs :
        /\ Done(p, "execute_query")
        /\ Did(p, "setex")
        /\ cache[loc[p].cache_key] # Absent
        /\ \E tk \in IndexKeys : loc[p].cache_key \in index[tk]

\* the SETEX commands of the call
SetExCommands(p) ==
    {events[p][i].x : i \in {j \in 1..Len(events[p]) :
                                events[p][j].e = "setex"}}

\* C16: when execute_query with use_cache=True has executed its statement
\* (a miss) and returned success, and no Redis command of the population
\* failed, then the call has issued one SETEX of the serialised result
\* under its cache key with its cache_ttl, the cache holds that document
\* under the key, and the key is a member of table_cache:<t>:<param_hash>
\* for every table t extracted from the query, param_hash being the
\* digest of the parameters alone.
C16_MissPopulatesCacheAndIndex ==
    \A p \in Procs :
        (/\ Done(p, "execute_query")
         /\ call[p].use_cache
         /\ Did(p, "execute")
         /\ ret[p].k = "envelope" /\ ret[p].success
         /\ ~Did(p, "redis_failed"))
        => LET key == GenerateCacheKey(call[p].query, call[p].params)
               doc == JsonDumps(ret[p].result, TRUE, FALSE)
           IN  /\ SetExCommands(p) = {SetEx(key, call[p].cache_ttl, doc)}
               /\ cache[key] = doc
               /\ \A t \in ExtractTablesFromQuery(call[p].query) :
                     key \in index[TableKey(t, GenerateParamHash(call[p].params))]

\* a parameterised read with a TTL of its own has populated the cache
C16_Witness ==
    \E p \in Procs :
        /\ Done(p, "execute_query")
        /\ call[p].use_cache /\ call[p].params # PyNone
        /\ call[p].cache_ttl = 60
        /\ Did(p, "setex") /\ ~Did(p, "redis_failed")
        /\ ret[p].k = "envelope" /\ ret[p].success
        /\ loc[p].cache_key \in
             index[TableKey("users", GenerateParamHash(call[p].params))]

\* C17: when _invalidate_cache_for_table(T, P) is called for a table T
\* and parameters P under which cache keys are registered (P may be the
\* empty or the absent parameter set), and no Redis command fails, then
\* afterwards every key that was registered under (T, hash(P)) is gone
\* from the cache, the index entry of (T, hash(P)) is gone, and every
\* other index entry is as it was.
C17_InvalidateDropsRegisteredKeys ==
    \A p \in Procs :
        LET table_key == TableKey(call[p].table,
                                  GenerateParamHash(call[p].params))
        IN  (/\ Done(p, "_invalidate_cache_for_table")
             /\ ~Did(p, "redis_failed")
             /\ pre[p].index[table_key] # {})
            => /\ \A key \in pre[p].index[table_key] : cache[key] = Absent
               /\ index[table_key] = {}
               /\ \A tk \in IndexKeys \ {table_key} :
                     index[tk] = pre[p].index[tk]

\* a cache entry of a query that touches a table and is a member of no
\* index entry
Orphan(key) ==
    /\ cache[key] # Absent
    /\ ExtractTablesFromQuery(key.q) # {}
    /\ \A tk \in IndexKeys : key \notin index[tk]

\* C18: the invalidation of an index entry is three Redis commands, not
\* one: SMEMBERS returns the members the set has at that moment; DEL
\* removes from the cache those keys and no other; DEL of the set then
\* removes the set whole, with any member registered since the SMEMBERS.
\* (The witness is the state the claim describes: a reader has stored and
\* registered its entry in between, and the entry is left in the cache
\* as a member of no index entry.)
C18_InvalidationNotAtomic ==
    [][\A p \in Procs :
          LET table_key == InvalidationKey(loc[p].table, InvalidationParams(p))
          IN  /\ (pc[p] = "i_enumerate" /\ pc'[p] = "i_delete")
                 => /\ loc'[p].cache_keys =
                         index[InvalidationKey(loc'[p].table,
                                               InvalidationParams(p))]
                    /\ cache' = cache /\ index' = index
              /\ (pc[p] = "i_delete" /\ pc'[p] = "i_drop")
                 => /\ cache' = [key \in CacheKeys |->
                                   IF key \in loc[p].cache_keys
                                   THEN Absent ELSE cache[key]]
                    /\ index' = index
              /\ (pc[p] = "i_drop" /\ pc'[p] # "i_drop"
                    /\ events'[p][Len(events'[p])].e = "del")
                 => /\ index' = [index EXCEPT ![table_key] = {}]
                    /\ cache' = cache]_vars

C18_Witness ==
    \E p \in Procs, q \in Procs :
        /\ Done(p, "_invalidate_cache_for_table")
        /\ Did(p, "del") /\ ~Did(p, "redis_failed")
        /\ Done(q, "execute_query")
        /\ Did(q, "setex") /\ ~Did(q, "redis_failed")
        /\ call[p].table \in ExtractTablesFromQuery(call[q].query)
        /\ GenerateParamHash(call[p].params) = GenerateParamHash(call[q].params)
        /\ Orphan(loc[q].cache_key)

\* C19: execute_query called with a fetch_mode other than 'all', 'many' or
\* 'one' returns the failure envelope {success: false, message, result: []},
\* raises nothing, writes nothing to the cache or the table index, and
\* releases its connection.  Stated for the calls that got their connection
\* and derived their cache key (lines 332-337), so that the fetch_mode is
\* the only argument at fault.
C19_InvalidFetchModeFails ==
    \A p \in Procs :
        (/\ Done(p, "execute_query")
         /\ call[p].fetch_mode \notin ValidFetchModes
         /\ Did(p, "connect")
         /\ ~IsError(GenerateCacheKey(call[p].query, call[p].params)))
        => /\ FailureEnvelope(ret[p])
           /\ ~Did(p, "setex")
           /\ conn[p] = "closed"

\* C20: table_exists(name) returns True if and only if a table with that
\* name exists in the database: when no table matches the name, it returns
\* False.  Stated for the calls whose statement the database did not
\* reject, so that what is returned depends on the tables only.
C20_TableExistsIffTable ==
    \A p \in Procs :
        (/\ Done(p, "table_exists")
         /\ ret[p].k = "returned"
         /\ ~Did(p, "execute_failed"))
        => (ret[p].val = PyBool(TRUE) <=> call[p].table \in Tables)

\* the rows the statement of a call gives on a database
RowsOn(p, tables) ==
    Fetch(call[p].fetch_mode, call[p].fetch_count,
          Select(call[p].query, call[p].params, tables))

\* C21: a cache miss of execute_query that runs at the same time as an
\* execute_commit on the same table fetches its rows in one step and
\* stores them in a later one, and nothing between the two looks at the
\* database again: what the store writes is the document of the rows
\* fetched, whatever has been committed and invalidated since.  Both calls
\* can therefore have returned while the cache serves the rows from
\* before the commit.
C21_StoreWritesRowsFetchedEarlier ==
    [][\A p \in Procs :
          /\ (pc[p] = "q_execute" /\ pc'[p] = "q_store")
             => loc'[p].result = RowsOn(p, db)
          /\ (pc[p] = "q_store" /\ pc'[p] = "done" /\ Did(p, "setex")')
             => /\ cache'[loc[p].cache_key] =
                     JsonDumps(loc[p].result, TRUE, FALSE)
                /\ ret'[p] = QuerySuccess(loc[p].result)]_vars

\* both calls have returned; the writer committed and its invalidation
\* ran without a Redis error; the reader stored, after that invalidation
\* had ended, the rows from before the commit, and the cache serves them
C21_Witness ==
    \E p \in Readers, q \in Writers :
        /\ Done(p, "execute_query")
        /\ Did(p, "execute") /\ Did(p, "setex") /\ ~Did(p, "redis_failed")
        /\ Done(q, "execute_commit")
        /\ call[q].invalidate_tables
        /\ Did(q, "commit") /\ Did(q, "smembers") /\ ~Did(q, "redis_failed")
        /\ ret[q].k = "envelope" /\ ret[q].success
        /\ ExtractTablesFromQuery(call[p].query)
             \cap ExtractTablesFromQuery(call[q].query) # {}
        /\ loc[p].cache_key \notin dirty
        /\ loc[p].result = RowsOn(p, pre[q].db)
        /\ loc[p].result # RowsOn(p, db)
        /\ GetCachedQuery(loc[p].cache_key, TRUE) = loc[p].result

\* what a call does on the Redis server, or to prepare a write to it
SideStoreEvents ==
    {"get", "get_failed", "setex", "dumps_failed", "smembers", "del_keys",
     "del", "redis_failed"}

FlagOff(c) ==
    \/ c.op = "execute_query" /\ ~c.use_cache
    \/ c.op = "execute_commit" /\ ~c.invalidate_tables

\* C22: an operation whose caching flag is off leaves the side store
\* untouched: no step of an execute_query with use_cache=False and no step
\* of an execute_commit with invalidate_tables=False reads or changes the
\* result cache or the table index, whatever the outcome of the statement.
C22_FlagOffLeavesSideStore ==
    [][\A p \in Procs :
          (pc'[p] # pc[p] /\ pc'[p] # "idle" /\ FlagOff(call'[p]))
          => /\ cache' = cache
             /\ index' = index
             /\ \A i \in 1..Len(events'[p]) :
                   events'[p][i].e \notin SideStoreEvents]_vars

\* a read with use_cache=False has executed its statement and returned
\* while an answer to it was in the cache
C22_Witness ==
    \E p \in Procs :
        /\ Done(p, "execute_query")
        /\ ~call[p].use_cache
        /\ Did(p, "execute")
        /\ ret[p].k = "envelope" /\ ret[p].success
        /\ cache[loc[p].cache_key] # Absent
        /\ cache = pre[p].cache /\ index = pre[p].index

\* the document the lookup of the call read under its key
Looked(p, doc) ==
    \E i \in 1..Len(events[p]) : events[p][i] = Ev("get", doc)

\* C23: a cached null is never a cache hit: an execute_query with
\* fetch_mode='one' that finds no row stores null; a later call whose
\* lookup reads null treats it as a miss, on the connection it acquired,
\* and executes the statement again; a call whose lookup reads the empty
\* list [] is answered with it from the cache and executes nothing.
C23_CachedNullIsMiss ==
    \A p \in Procs :
        Done(p, "execute_query") =>
           /\ (/\ call[p].fetch_mode = "one"
               /\ Did(p, "execute")
               /\ loc[p].result = PyNone
               /\ Did(p, "setex"))
              => /\ SetExCommands(p) =
                      {SetEx(loc[p].cache_key, call[p].cache_ttl, JNull)}
                 /\ ret[p] = QuerySuccess(PyNone)
           /\ Looked(p, JNull)
              => /\ Did(p, "connect")
                 /\ Did(p, "execute") \/ Did(p, "execute_failed")
           /\ Looked(p, JArr(<<>>))
              => /\ ret[p] = QuerySuccess(PyList(<<>>))
                 /\ ~Did(p, "execute") /\ ~Did(p, "execute_failed")

\* a call read the null an earlier call had stored, executed its
\* statement again and stored null again
C23_Witness ==
    \E p \in Procs :
        /\ Done(p, "execute_query")
        /\ call[p].fetch_mode = "one"
        /\ Looked(p, JNull)
        /\ Did(p, "execute")
        /\ Did(p, "setex")
        /\ ret[p] = QuerySuccess(PyNone)
        /\ cache[loc[p].cache_key] = JNull

\* C24: in a single-threaded run a cache key becomes a member of a
\* table-index entry only in a population (_cache_query) that has stored
\* that key in the result cache first: the store precedes every
\* registration, and a population whose store failed registers nothing.
\* The converse does not hold: index entries do not expire and keep keys
\* whose cache entry has expired.
C24_RegisteredKeysWereStored ==
    [][/\ \A tk \in IndexKeys, key \in CacheKeys :
             (key \in index'[tk] /\ key \notin index[tk])
             => \E p \in Procs :
                   /\ pc[p] = "q_store" /\ pc'[p] = "done"
                   /\ key = loc[p].cache_key
                   /\ \E t \in ExtractTablesFromQuery(call[p].query) :
                         tk = TableKey(t, GenerateParamHash(call[p].params))
                   /\ events'[p][Len(events[p]) + 1] =
                         Ev("setex",
                            SetEx(key, call[p].cache_ttl,
                                  JsonDumps(loc[p].result, TRUE, FALSE)))
                   /\ cache'[key] = JsonDumps(loc[p].result, TRUE, FALSE)
       /\ \A p \in Procs :
             (pc[p] = "q_store" /\ pc'[p] = "done" /\ ~Did(p, "setex")')
             => index' = index]_vars

\* one call has been made, a read that stored and registered its key; the
\* cache entry has since expired and the index entry still holds the key
C24_Witness ==
    /\ left = MaxCallsShort - 1
    /\ \A p \in Procs : pc[p] = "idle"
    /\ \E tk \in IndexKeys, key \in CacheKeys :
          key \in index[tk] /\ cache[key] = Absent

\* the cache keys of the reads whose text gives the extractor no table
Tableless == {key \in CacheKeys : ExtractTablesFromQuery(key.q) = {}}

\* what holds of the reads with no table in a step, when the lookups that
\* read one of the documents of `unanswered` are the ones not answered
\* from the cache
TablelessEntries(unanswered) ==
    /\ \A key \in Tableless, tk \in IndexKeys : key \notin index'[tk]
    /\ \A p \in Procs :
          (call[p].op = "execute_commit" /\ pc'[p] # pc[p])
          => \A key \in Tableless : cache'[key] = cache[key]
    /\ \A p \in Procs :
          (/\ pc[p] = "q_lookup" /\ pc'[p] # pc[p]
           /\ loc[p].cache_key \in Tableless
           /\ events'[p][Len(events'[p])].e = "get"
           /\ cache[loc[p].cache_key] \notin unanswered)
          => /\ pc'[p] = "done"
             /\ ret'[p] = QueryReturn(p,
                    QuerySuccess(JsonLoads(cache[loc[p].cache_key])))

====
